---- MODULE Spec2Model ----
(***************************************************************************)
(* Model of quest_solution.py: sync_bucket mirrors the files linked on a   *)
(* remote listing page into an S3 prefix and republishes index.html.       *)
(* Strings are sequences of tokens; "/" is the path separator.             *)
(***************************************************************************)
EXTENDS Integers, Sequences, FiniteSets, TLC

\* ---------------------------------------------------------------- bounds
\* Keys returned per page of a store listing (S3 returns up to 1000).
PageSize == 2
\* Number of consecutive runs of sync_bucket the model follows.
MaxRuns == 2

\* ------------------------------------------------------------- constants
None == <<"None">>
Sep == "/"
Prefix == <<"dataset", Sep>>
IndexName == <<"index.html">>
DATASET2_JSON_FILE == <<"usa_population.json">>
files_to_download == {<<"pr.data.0.Current">>}

\* --------------------------------------------------------- string helpers
Range(s) == {s[i] : i \in 1..Len(s)}

\* str.endswith('/')
EndsWithSep(s) == Len(s) > 0 /\ s[Len(s)] = Sep

\* str.startswith(p)
StartsWith(s, p) == Len(s) >= Len(p) /\ SubSeq(s, 1, Len(p)) = p

\* index of the first occurrence of sep in s, 0 when there is none
FindFirst(s, sep) ==
    LET hits == {i \in 1..(Len(s) - Len(sep) + 1) : SubSeq(s, i, i + Len(sep) - 1) = sep}
    IN IF hits = {} THEN 0 ELSE CHOOSE i \in hits : \A j \in hits : i <= j

\* s.split(sep)[0]
SplitHead(s, sep) ==
    LET i == FindFirst(s, sep)
    IN IF i = 0 THEN s ELSE SubSeq(s, 1, i - 1)

\* what follows the first occurrence of sep in s
SplitRest(s, sep) ==
    LET i == FindFirst(s, sep)
    IN SubSeq(s, i + Len(sep), Len(s))

\* key.split(s3_prefix)[1], for a key in which s3_prefix occurs
SplitSecond(key, sep) == SplitHead(SplitRest(key, sep), sep)

\* href.split('/')[-1]
RECURSIVE SplitLast(_)
SplitLast(s) ==
    IF FindFirst(s, <<Sep>>) = 0 THEN s ELSE SplitLast(SplitRest(s, <<Sep>>))

\* the name get_s3_objects appends for a key of the listing
StripKey(key, s3_prefix) ==
    IF StartsWith(key, s3_prefix) THEN SplitSecond(key, s3_prefix) ELSE key

\* f"{s3_prefix}{filename}"
PrefixedKey(s3_prefix, filename) == s3_prefix \o filename

\* urljoin(DATASET1_URL, href): an absolute path replaces the path of the
\* base URL, a relative one replaces its last segment
BaseHost == <<"https://download.bls.gov">>
BaseDir == <<"https://download.bls.gov", Sep, "pub", Sep, "time.series", Sep>>
Urljoin(href) == IF href[1] = Sep THEN BaseHost \o href ELSE BaseDir \o href

\* ------------------------------------------------------ dict (files_dict)
\* A dict is a sequence of entries in insertion order, names unique.
Names(d) == {d[i].name : i \in 1..Len(d)}

\* d[k] = v: an existing key keeps its position, a new key is appended
DictSet(d, k, v) ==
    IF k \in Names(d)
    THEN [i \in 1..Len(d) |-> IF d[i].name = k THEN [name |-> k, url |-> v] ELSE d[i]]
    ELSE Append(d, [name |-> k, url |-> v])

\* ------------------------------------------------- the remote listing page
NoHref == <<>>
ParentLink == <<Sep, "pub", Sep>>
CurLink == <<Sep, "pr", Sep, "pr.data.0.Current">>
TxtLink == <<Sep, "pr", Sep, "pr.txt">>
RelTxtLink == <<"pr.txt">>

\* the sequences of <a href> values the remote page may carry
LinkPages ==
    { <<ParentLink, NoHref, CurLink, TxtLink>>,
      <<ParentLink, CurLink>>,
      <<TxtLink, RelTxtLink>> }

\* the loop of get_dataset1_info over soup.find_all('a')
RECURSIVE ScrapeLinks(_, _)
ScrapeLinks(hrefs, files_dict) ==
    IF hrefs = <<>> THEN files_dict
    ELSE LET href == Head(hrefs)
         IN IF href # NoHref /\ ~EndsWithSep(href)
            THEN ScrapeLinks(Tail(hrefs), DictSet(files_dict, SplitLast(href), Urljoin(href)))
            ELSE ScrapeLinks(Tail(hrefs), files_dict)

\* remote_files["index.html"] = None; remote_files[DATASET2_JSON_FILE] = None
InjectGenerated(files_dict) ==
    DictSet(DictSet(files_dict, IndexName, None), DATASET2_JSON_FILE, None)

\* -------------------------------------------------------- the object store
OldName == <<"old.txt">>
\* every key the store may hold under the prefix, in the order S3 lists them
KeyOrder ==
    << Prefix,
       Prefix \o Prefix \o OldName,
       Prefix \o IndexName,
       Prefix \o OldName,
       Prefix \o <<"pr.data.0.Current">>,
       Prefix \o <<"pr.txt">>,
       Prefix \o DATASET2_JSON_FILE >>
StoreKeys == Range(KeyOrder)

\* the keys list_objects_v2(Prefix=s3_prefix) enumerates, in order
Listing(objs, s3_prefix) ==
    SelectSeq(KeyOrder, LAMBDA k : k \in objs /\ StartsWith(k, s3_prefix))

NumPages(listing) ==
    IF Len(listing) = 0 THEN 1 ELSE (Len(listing) + PageSize - 1) \div PageSize

\* page n of a listing: page['Contents'] (empty when the key is absent)
PageOf(listing, n) ==
    SubSeq(listing, (n - 1) * PageSize + 1,
           IF n * PageSize < Len(listing) THEN n * PageSize ELSE Len(listing))

\* a listing cut after its first page
PaginateFirstOnly(listing) == <<PageOf(listing, 1)>>

\* paginator.paginate(...): every page of the listing
Paginate(listing) == [n \in 1..NumPages(listing) |-> PageOf(listing, n)]

\* one call of s3.list_objects_v2: the first page only
ListObjectsV2(listing) == PageOf(listing, 1)

\* the inner loop of get_s3_objects over one page
RECURSIVE PageNames(_, _)
PageNames(contents, s3_prefix) ==
    IF contents = <<>> THEN <<>>
    ELSE LET key == Head(contents)
         IN IF ~EndsWithSep(key)
            THEN <<StripKey(key, s3_prefix)>> \o PageNames(Tail(contents), s3_prefix)
            ELSE PageNames(Tail(contents), s3_prefix)

\* the <li> entries generate_index_html renders from response["Contents"]
RECURSIVE IndexEntries(_)
IndexEntries(contents) ==
    IF contents = <<>> THEN <<>>
    ELSE LET key == Head(contents)
         IN IF EndsWithSep(key)
            THEN IndexEntries(Tail(contents))
            ELSE <<[filename |-> SplitLast(key), key |-> key]>> \o IndexEntries(Tail(contents))

\* ------------------------------------------------ the transfer decisions
\* an upload that does not look at the listing
NeedsUploadAlways(filename, existing_s3_files) == TRUE

\* filename not in existing_s3_files
NeedsUpload(filename, existing_s3_files) == filename \notin Range(existing_s3_files)

\* a difference that counts only the names that have a locator
FilesToDeleteIgnoringNone(files_info, existing_s3_files) ==
    Range(existing_s3_files)
        \ {files_info[i].name : i \in {j \in 1..Len(files_info) : files_info[j].url # None}}

\* set(existing_s3_files) - set(files_info.keys())
FilesToDelete(files_info, existing_s3_files) ==
    Range(existing_s3_files) \ Names(files_info)

\* [{"Key": f"{s3_prefix}{f}"} for f in files_to_delete]
DeleteObjects(files_to_delete, s3_prefix) ==
    {PrefixedKey(s3_prefix, f) : f \in files_to_delete}

\* a request issued also for an empty set
DeleteCallsAlways(files_to_delete, s3_prefix) ==
    <<DeleteObjects(files_to_delete, s3_prefix)>>

\* the delete_objects calls remove_files_from_s3 makes for files_to_delete
DeleteCalls(files_to_delete, s3_prefix) ==
    IF files_to_delete # {} THEN <<DeleteObjects(files_to_delete, s3_prefix)>> ELSE <<>>

\* ------------------------------------------------------------------ state
VARIABLES
    links,            \* the hrefs of the remote listing page
    store,            \* keys of the objects in the bucket
    local_current,    \* data/dataset1/pr.data.0.Current: absent, old, full, empty
    run,              \* number of the current run of sync_bucket
    pc,               \* position of the run
    remote_files,     \* sync_bucket's remote_files dict
    objects,          \* get_s3_objects' result list (s3_files)
    page,             \* next page of the paginator
    idx,              \* next item of files_info.items()
    uploaded,         \* names upload_files_to_s3 has put in the store this run
    failed_item,      \* the item whose fetch or upload raised, or None
    fetch_log,        \* requests.get calls for file contents this run
    delete_requests,  \* Delete.Objects of each delete_objects call this run
    delete_errors,    \* keys the store reported in Errors of the response
    reported_deleted, \* the number printed by "Deleted N files."
    ds2_uploaded,     \* sync_bucket has uploaded usa_population.json this run
    index_doc,        \* entries of the index.html last published
    index_published,  \* generate_index_html has put index.html this run
    abort_at,         \* where the run raised, "none" if it has not
    store0,           \* the store when the run started
    prev_clean,       \* the previous run finished with no exception and no delete error
    local0,           \* local_current when the run started
    prev_abort        \* where the previous run raised, "none" if it did not

vars == <<links, store, local_current, run, pc, remote_files, objects, page, idx,
          uploaded, failed_item, fetch_log, delete_requests, delete_errors,
          reported_deleted, ds2_uploaded, index_doc, index_published, abort_at,
          store0, prev_clean, local0, prev_abort>>

env == <<links, run, store0, prev_clean, local0, prev_abort>>
history == <<uploaded, failed_item, fetch_log, delete_requests, delete_errors,
             reported_deleted, ds2_uploaded, index_doc, index_published, abort_at>>

Init ==
    /\ links \in LinkPages
    /\ store \in SUBSET StoreKeys
    /\ local_current \in {"absent", "old"}
    /\ run = 1
    /\ pc = "start"
    /\ remote_files = <<>>
    /\ objects = <<>>
    /\ page = 1
    /\ idx = 1
    /\ uploaded = {}
    /\ failed_item = None
    /\ fetch_log = <<>>
    /\ delete_requests = <<>>
    /\ delete_errors = {}
    /\ reported_deleted = 0
    /\ ds2_uploaded = FALSE
    /\ index_doc = <<>>
    /\ index_published = FALSE
    /\ abort_at = "none"
    /\ store0 = store
    /\ prev_clean = FALSE
    /\ local0 = local_current
    /\ prev_abort = "none"

\* --------------------------------------------------------- sync_bucket
\* get_dataset1_info returns the scraped mapping
GetDataset1InfoOk ==
    /\ pc = "start"
    /\ remote_files' = ScrapeLinks(links, <<>>)
    /\ pc' = "list"
    /\ UNCHANGED <<store, local_current, objects, page, idx>>
    /\ UNCHANGED env
    /\ UNCHANGED history

\* a failed fetch that is swallowed: the run goes on with an empty mapping
GetDataset1InfoFailSwallowed ==
    /\ pc = "start"
    /\ remote_files' = <<>>
    /\ pc' = "list"
    /\ abort_at' = "listing"
    /\ UNCHANGED <<store, local_current, objects, page, idx>>
    /\ UNCHANGED env
    /\ UNCHANGED <<uploaded, failed_item, fetch_log, delete_requests, delete_errors,
                   reported_deleted, ds2_uploaded, index_doc, index_published>>

\* requests.get raises or raise_for_status raises: sync_bucket propagates it
GetDataset1InfoFail ==
    /\ pc = "start"
    /\ pc' = "aborted"
    /\ abort_at' = "listing"
    /\ UNCHANGED <<store, local_current, remote_files, objects, page, idx>>
    /\ UNCHANGED env
    /\ UNCHANGED <<uploaded, failed_item, fetch_log, delete_requests, delete_errors,
                   reported_deleted, ds2_uploaded, index_doc, index_published>>

\* get_s3_objects: one page of the paginator
GetS3ObjectsPage ==
    /\ pc = "list"
    /\ LET pages == Paginate(Listing(store, Prefix))
       IN /\ page \in DOMAIN pages
          /\ objects' = objects \o PageNames(pages[page], Prefix)
    /\ page' = page + 1
    /\ UNCHANGED <<store, local_current, pc, remote_files, idx>>
    /\ UNCHANGED env
    /\ UNCHANGED history

\* get_s3_objects returns; sync_bucket adds the two generated names
GetS3ObjectsReturn ==
    /\ pc = "list"
    /\ page \notin DOMAIN Paginate(Listing(store, Prefix))
    /\ remote_files' = InjectGenerated(remote_files)
    /\ pc' = "upload"
    /\ idx' = 1
    /\ UNCHANGED <<store, local_current, objects, page>>
    /\ UNCHANGED env
    /\ UNCHANGED history

\* ------------------------------------------------- upload_files_to_s3
\* a local copy written whether or not the file exists
WantsLocalCopyAlways(filename) == filename \in files_to_download

\* the local copy is wanted: filename in files_to_download and no file there
WantsLocalCopy(filename) ==
    filename \in files_to_download /\ local_current = "absent"

\* a fetch for the local copy alone although the upload has fetched
NeedsOwnFetchAlways(up, cache) == cache

\* if file_resp is None: the local copy is wanted and the upload made no fetch
NeedsOwnFetch(up, cache) == cache /\ ~up

\* if file_url is None: continue
UploadSkipNone ==
    /\ pc = "upload"
    /\ idx <= Len(remote_files)
    /\ remote_files[idx].url = None
    /\ idx' = idx + 1
    /\ UNCHANGED <<store, local_current, pc, remote_files, objects, page>>
    /\ UNCHANGED env
    /\ UNCHANGED history

\* one iteration of the loop in which no call raises
UploadItemOk ==
    /\ pc = "upload"
    /\ idx <= Len(remote_files)
    /\ remote_files[idx].url # None
    /\ LET filename == remote_files[idx].name
           up == NeedsUpload(filename, objects)
           cache == WantsLocalCopy(filename)
       IN /\ store' = IF up THEN store \cup {PrefixedKey(Prefix, filename)} ELSE store
          /\ uploaded' = IF up THEN uploaded \cup {filename} ELSE uploaded
          /\ fetch_log' = fetch_log
                            \o (IF up THEN << <<"upload", filename>> >> ELSE <<>>)
                            \o (IF NeedsOwnFetch(up, cache) THEN << <<"cache", filename>> >> ELSE <<>>)
          \* after upload_fileobj has read file_resp.raw to its end,
          \* iter_content yields nothing: the file is created empty
          /\ local_current' = IF cache THEN (IF up THEN "empty" ELSE "full")
                              ELSE local_current
    /\ idx' = idx + 1
    /\ UNCHANGED <<pc, remote_files, objects, page>>
    /\ UNCHANGED env
    /\ UNCHANGED <<failed_item, delete_requests, delete_errors, reported_deleted,
                   ds2_uploaded, index_doc, index_published, abort_at>>

\* one iteration in which a call raises: the fetch for the upload (line
\* 99-100), the upload (line 102) or the fetch for the local copy (110-111);
\* nothing catches the exception
UploadItemFail ==
    /\ pc = "upload"
    /\ idx <= Len(remote_files)
    /\ remote_files[idx].url # None
    /\ LET filename == remote_files[idx].name
           up == NeedsUpload(filename, objects)
           cache == WantsLocalCopy(filename)
       IN \E at \in {"fetch", "upload", "cache_fetch"} :
            /\ at \in {"fetch", "upload"} => up
            /\ at = "cache_fetch" => NeedsOwnFetch(up, cache)
            /\ fetch_log' = Append(fetch_log,
                                   <<IF at = "cache_fetch" THEN "cache" ELSE "upload", filename>>)
            /\ failed_item' = filename
            /\ abort_at' = at
    /\ pc' = "aborted"
    /\ UNCHANGED <<store, local_current, remote_files, objects, page, idx>>
    /\ UNCHANGED env
    /\ UNCHANGED <<uploaded, delete_requests, delete_errors, reported_deleted,
                   ds2_uploaded, index_doc, index_published>>

\* the loop is over: upload_files_to_s3 returns
UploadReturn ==
    /\ pc = "upload"
    /\ idx > Len(remote_files)
    /\ pc' = "remove"
    /\ UNCHANGED <<store, local_current, remote_files, objects, page, idx>>
    /\ UNCHANGED env
    /\ UNCHANGED history

\* ----------------------------------------------- remove_files_from_s3
\* the store deletes the keys of the request except those it reports in
\* Errors; the response is not read
RemoveFilesFromS3 ==
    /\ pc = "remove"
    /\ LET files_to_delete == FilesToDelete(remote_files, objects)
           calls == DeleteCalls(files_to_delete, Prefix)
       IN /\ delete_requests' = delete_requests \o calls
          /\ IF calls = <<>>
             THEN UNCHANGED <<store, delete_errors, reported_deleted>>
             ELSE \E errs \in SUBSET calls[1] :
                    /\ store' = store \ (calls[1] \ errs)
                    /\ delete_errors' = errs
                    /\ reported_deleted' = Cardinality(calls[1])
    /\ pc' = "dataset2"
    /\ UNCHANGED <<local_current, remote_files, objects, page, idx>>
    /\ UNCHANGED env
    /\ UNCHANGED <<uploaded, failed_item, fetch_log, ds2_uploaded, index_doc,
                   index_published, abort_at>>

\* --------------------------------------- sync_bucket, lines 183 to 188
\* a second dataset that is uploaded only when the listing lacks it
Dataset2OkIfMissing ==
    /\ pc = "dataset2"
    /\ IF DATASET2_JSON_FILE \in Range(objects)
       THEN UNCHANGED <<fetch_log, store, ds2_uploaded>>
       ELSE /\ fetch_log' = Append(fetch_log, <<"dataset2", DATASET2_JSON_FILE>>)
            /\ store' = store \cup {PrefixedKey(Prefix, DATASET2_JSON_FILE)}
            /\ ds2_uploaded' = TRUE
    /\ pc' = "index"
    /\ UNCHANGED <<local_current, remote_files, objects, page, idx>>
    /\ UNCHANGED env
    /\ UNCHANGED <<uploaded, failed_item, delete_requests, delete_errors,
                   reported_deleted, index_doc, index_published, abort_at>>

\* get_dataset2_json saves the JSON and upload_file puts it in the store
Dataset2Ok ==
    /\ pc = "dataset2"
    /\ fetch_log' = Append(fetch_log, <<"dataset2", DATASET2_JSON_FILE>>)
    /\ store' = store \cup {PrefixedKey(Prefix, DATASET2_JSON_FILE)}
    /\ ds2_uploaded' = TRUE
    /\ pc' = "index"
    /\ UNCHANGED <<local_current, remote_files, objects, page, idx>>
    /\ UNCHANGED env
    /\ UNCHANGED <<uploaded, failed_item, delete_requests, delete_errors,
                   reported_deleted, index_doc, index_published, abort_at>>

\* get_dataset2_json raises
Dataset2Fail ==
    /\ pc = "dataset2"
    /\ fetch_log' = Append(fetch_log, <<"dataset2", DATASET2_JSON_FILE>>)
    /\ abort_at' = "dataset2"
    /\ pc' = "aborted"
    /\ UNCHANGED <<store, local_current, remote_files, objects, page, idx>>
    /\ UNCHANGED env
    /\ UNCHANGED <<uploaded, failed_item, delete_requests, delete_errors,
                   reported_deleted, ds2_uploaded, index_doc, index_published>>

\* ------------------------------------------------ generate_index_html
GenerateIndexHtml ==
    /\ pc = "index"
    /\ LET contents == ListObjectsV2(Listing(store, Prefix))
       IN IF contents = <<>>
          THEN UNCHANGED <<store, index_doc, index_published>>
          ELSE /\ index_doc' = IndexEntries(contents)
               /\ store' = store \cup {PrefixedKey(Prefix, IndexName)}
               /\ index_published' = TRUE
    /\ pc' = "done"
    /\ UNCHANGED <<local_current, remote_files, objects, page, idx>>
    /\ UNCHANGED env
    /\ UNCHANGED <<uploaded, failed_item, fetch_log, delete_requests, delete_errors,
                   reported_deleted, ds2_uploaded, abort_at>>

\* ---------------------------------------------------------- the next run
\* the script is started again: same remote page, the store as it was left
Rerun ==
    /\ pc \in {"done", "aborted"}
    /\ run < MaxRuns
    /\ run' = run + 1
    /\ prev_clean' = (pc = "done" /\ delete_errors = {})
    /\ store0' = store
    /\ local0' = local_current
    /\ prev_abort' = abort_at
    /\ pc' = "start"
    /\ remote_files' = <<>>
    /\ objects' = <<>>
    /\ page' = 1
    /\ idx' = 1
    /\ uploaded' = {}
    /\ failed_item' = None
    /\ fetch_log' = <<>>
    /\ delete_requests' = <<>>
    /\ delete_errors' = {}
    /\ reported_deleted' = 0
    /\ ds2_uploaded' = FALSE
    /\ index_published' = FALSE
    /\ abort_at' = "none"
    /\ UNCHANGED <<links, store, local_current, index_doc>>

Next ==
    \/ GetDataset1InfoOk
    \/ GetDataset1InfoFail
    \/ GetS3ObjectsPage
    \/ GetS3ObjectsReturn
    \/ UploadSkipNone
    \/ UploadItemOk
    \/ UploadItemFail
    \/ UploadReturn
    \/ RemoveFilesFromS3
    \/ Dataset2Ok
    \/ Dataset2Fail
    \/ GenerateIndexHtml
    \/ Rerun

Spec == Init /\ [][Next]_vars

\* =================================================================
\* Properties
\* =================================================================
\* the name of a key under the prefix: the key without its leading prefix
NameUnderPrefix(key) == SubSeq(key, Len(Prefix) + 1, Len(key))

\* the keys under the prefix that are no folder markers
NonMarkerKeys(objs) == {k \in objs : StartsWith(k, Prefix) /\ ~EndsWithSep(k)}

\* names of the catalog that have a locator / have none
WithLocator(d) == {d[i].name : i \in {j \in 1..Len(d) : d[j].url # None}}
NoLocator(d) == {d[i].name : i \in {j \in 1..Len(d) : d[j].url = None}}

\* get_s3_objects has returned in this run
ListingReturned ==
    \/ pc \in {"upload", "remove", "dataset2", "index", "done"}
    \/ pc = "aborted" /\ abort_at # "listing"

\* upload_files_to_s3 has returned in this run
UploadReturned == pc \in {"remove", "dataset2", "index", "done"}

\* remove_files_from_s3 has returned in this run
RemoveReturned ==
    \/ pc \in {"dataset2", "index", "done"}
    \/ pc = "aborted" /\ abort_at = "dataset2"

\* the names the run has asked the store to delete
RequestedNames ==
    {NameUnderPrefix(k) : k \in UNION {delete_requests[i] : i \in 1..Len(delete_requests)}}

\* C1 (as stated): once upload_files_to_s3 has returned, the names it has
\* uploaded are exactly keys(R) - S.
C1_UploadsAllMissing ==
    UploadReturned => uploaded = Names(remote_files) \ Range(objects)

\* C1 (amended): the names upload_files_to_s3 uploads are always among the
\* names of R that have a locator and are not in S, and are exactly those
\* once it returns; the names of the delete request are exactly S - keys(R);
\* the two sets are disjoint.
C1_Diff ==
    /\ uploaded \subseteq WithLocator(remote_files) \ Range(objects)
    /\ UploadReturned => uploaded = WithLocator(remote_files) \ Range(objects)
    /\ RemoveReturned => RequestedNames = Range(objects) \ Names(remote_files)
    /\ uploaded \cap RequestedNames = {}

C1_Witness ==
    /\ RemoveReturned
    /\ uploaded # {}
    /\ RequestedNames # {}
    /\ IndexName \notin Range(objects)

\* C2: after a run that ends with no exception and no delete error, the
\* names of the non-marker objects under the prefix are exactly keys(R).
C2_StoreMirrorsCatalog ==
    (pc = "done" /\ delete_errors = {})
        => {NameUnderPrefix(k) : k \in NonMarkerKeys(store)} = Names(remote_files)

\* C3: in a run that follows a run which ended with no exception and no
\* delete error, the names to upload and the names to delete are both empty.
C3_SecondRunEmpty ==
    (run >= 2 /\ prev_clean /\ ListingReturned)
        => /\ Names(remote_files) \ Range(objects) = {}
           /\ FilesToDelete(remote_files, objects) = {}

\* C4: no key of a batch-delete request is prefix + name for a name whose
\* locator in the catalog is None, index.html and usa_population.json among
\* them, whatever the listing holds.
C4_ProtectedNeverDeleted ==
    \A i \in 1..Len(delete_requests) :
        \A n \in NoLocator(remote_files) \cup {IndexName, DATASET2_JSON_FILE} :
            PrefixedKey(Prefix, n) \notin delete_requests[i]

C4_Witness ==
    /\ delete_requests # <<>>
    /\ IndexName \in Range(objects)
    /\ DATASET2_JSON_FILE \in Range(objects)

\* C5: when the fetch or upload of one item has failed, every other item
\* that was to be uploaded is uploaded by the end of that run.
C5_FailureIsolated ==
    (pc = "aborted" /\ failed_item # None)
        => \A n \in (WithLocator(remote_files) \ Range(objects)) \ {failed_item} :
               n \in uploaded

\* C6: the deleted count remove_files_from_s3 reports is the number of keys
\* of the request the store deleted.
C6_DeletedCountIsActual ==
    delete_requests # <<>>
        => reported_deleted = Cardinality(delete_requests[1] \ delete_errors)

\* C7: once get_s3_objects has returned, its result has exactly one entry
\* for each key of the listing that does not end in the separator, whatever
\* page the key is on, and none for a marker key.
C7_PaginationComplete ==
    ListingReturned
        => /\ Len(objects) = Cardinality(NonMarkerKeys(store0))
           /\ \A k \in NonMarkerKeys(store0) : StripKey(k, Prefix) \in Range(objects)

C7_Witness ==
    /\ ListingReturned
    /\ Len(Listing(store0, Prefix)) > 2 * PageSize
    /\ Prefix \in store0
    /\ Len(objects) > PageSize

\* C8: the index.html published at the end of a run has an entry for every
\* non-marker object under the prefix left by the run's uploads and deletes,
\* and none for an object that is not in the store.
C8_IndexListsEveryObject ==
    pc = "done"
        => LET listed == {index_doc[i].key : i \in 1..Len(index_doc)}
           IN /\ \A k \in NonMarkerKeys(store) \ {PrefixedKey(Prefix, IndexName)} :
                    k \in listed
              /\ listed \subseteq NonMarkerKeys(store)

\* C9: a run issues at most one batch-delete request; once
\* remove_files_from_s3 has returned there is none when S - keys(R) is
\* empty, and otherwise one holding exactly prefix + name for each name.
C9_SingleBatchDelete ==
    /\ Len(delete_requests) <= 1
    /\ RemoveReturned
        => LET to_delete == Range(objects) \ Names(remote_files)
           IN IF to_delete = {}
              THEN delete_requests = <<>>
              ELSE delete_requests = <<{Prefix \o n : n \in to_delete}>>

C9_Witness ==
    /\ RemoveReturned
    /\ delete_requests # <<>>
    /\ Cardinality(delete_requests[1]) >= 2

\* C10: when the fetch of the remote listing has failed, the run is aborted
\* and has uploaded, deleted and published nothing: the store is as it was
\* when the run started.
C10_ListingFailureLeavesStore ==
    abort_at = "listing"
        => /\ pc = "aborted"
           /\ store = store0
           /\ uploaded = {}
           /\ delete_requests = <<>>
           /\ ~ds2_uploaded
           /\ ~index_published

C10_Witness ==
    /\ abort_at = "listing"
    /\ pc = "aborted"
    /\ NonMarkerKeys(store) # {}

\* the requests.get calls upload_files_to_s3 has made this run
ItemFetches == {i \in 1..Len(fetch_log) : fetch_log[i][1] \in {"upload", "cache"}}

\* C11: within a run upload_files_to_s3 fetches no name twice, also when the
\* name is uploaded and copied to the local cache; it fetches no name whose
\* locator is None and raises nothing for one; and it fetches a name that
\* the listing holds only when the name is in files_to_download and had no
\* local copy when the run started.
C11_FetchAtMostOnce ==
    /\ \A i, j \in ItemFetches : fetch_log[i][2] = fetch_log[j][2] => i = j
    /\ \A i \in ItemFetches : fetch_log[i][2] \notin NoLocator(remote_files)
    /\ failed_item \notin NoLocator(remote_files)
    /\ \A i \in ItemFetches :
           fetch_log[i][2] \in Range(objects)
               => /\ fetch_log[i][2] \in files_to_download
                  /\ local0 = "absent"
                  /\ fetch_log[i][1] = "cache"

C11_Witness ==
    /\ UploadReturned
    /\ local0 = "absent"
    /\ local_current # "absent"
    /\ <<"pr.data.0.Current">> \in uploaded
    /\ Cardinality(ItemFetches) >= 2
    /\ IndexName \notin Range(objects)

\* where a run raises during or after the uploads
LateAborts == {"fetch", "upload", "cache_fetch", "dataset2"}

\* the objects a run uploaded before it was aborted are in the store
UploadedStay ==
    (pc = "aborted" /\ abort_at \in LateAborts)
        => \A n \in uploaded : PrefixedKey(Prefix, n) \in store

\* C12: after a run aborted during or after the uploads, the objects it
\* uploaded stay in the store, and the next run that ends with no exception
\* and no delete error leaves the names of the non-marker objects under the
\* prefix equal to keys(R).
C12_AbortedRunRecovers ==
    /\ UploadedStay
    /\ (run >= 2 /\ prev_abort \in LateAborts /\ pc = "done" /\ delete_errors = {})
           => {NameUnderPrefix(k) : k \in NonMarkerKeys(store)} = Names(remote_files)

\* =================================================================
\* get_dataset1_info over bounded listing pages
\* =================================================================
\* longest listing page, in links
MaxLinks == 3

\* a parent link written without a trailing separator
DotDotLink == <<"..">>

\* the href values a link of the page may have
Hrefs == {NoHref, ParentLink, DotDotLink, CurLink, TxtLink, RelTxtLink}

\* every page of at most MaxLinks links
LinkSeqs == UNION {[1..n -> Hrefs] : n \in 0..MaxLinks}

ScrapeInit ==
    /\ links \in LinkSeqs
    /\ store = {}
    /\ local_current = "absent"
    /\ run = 1
    /\ pc = "start"
    /\ remote_files = <<>>
    /\ objects = <<>>
    /\ page = 1
    /\ idx = 1
    /\ uploaded = {}
    /\ failed_item = None
    /\ fetch_log = <<>>
    /\ delete_requests = <<>>
    /\ delete_errors = {}
    /\ reported_deleted = 0
    /\ ds2_uploaded = FALSE
    /\ index_doc = <<>>
    /\ index_published = FALSE
    /\ abort_at = "none"
    /\ store0 = store
    /\ prev_clean = FALSE
    /\ local0 = local_current
    /\ prev_abort = "none"

ScrapeNext ==
    \/ GetDataset1InfoOk
    \/ GetDataset1InfoFail

ScrapeSpec == ScrapeInit /\ [][ScrapeNext]_vars

\* a link to the parent or to the page itself
IsNavigation(href) == href = ParentLink \/ href \in {<<".">>, <<"..">>}

\* the links the mapping is to have an entry for, by position
FileLinks(hrefs) ==
    {i \in 1..Len(hrefs) :
        hrefs[i] # NoHref /\ ~EndsWithSep(hrefs[i]) /\ ~IsNavigation(hrefs[i])}

\* the part of an href after its last separator
Basename(href) ==
    LET seps == {i \in 1..Len(href) : href[i] = Sep}
    IN IF seps = {} THEN href
       ELSE SubSeq(href, (CHOOSE i \in seps : \A j \in seps : j <= i) + 1, Len(href))

\* keys are the basenames of the file links; each key has the locator of
\* the last file link with that basename
MappingOfFileLinks ==
    /\ Names(remote_files) = {Basename(links[i]) : i \in FileLinks(links)}
    /\ \A e \in Range(remote_files) :
           \A i \in FileLinks(links) :
               (/\ Basename(links[i]) = e.name
                /\ \A j \in FileLinks(links) : Basename(links[j]) = e.name => j <= i)
                   => e.url = Urljoin(links[i])

\* C13: the mapping get_dataset1_info returns has as keys exactly the
\* basenames of the links that are neither directory-like nor parent/self
\* navigation links, each with the locator of the last such link.
C13_MappingOfFileLinks == pc = "list" => MappingOfFileLinks

\* =================================================================
\* Properties of the local copy, the key names and the second dataset
\* =================================================================
CurrentName == <<"pr.data.0.Current">>

\* C14: when pr.data.0.Current is uploaded in a run that also writes its
\* local copy, the local file holds the full content that was fetched.
C14_CacheCopyComplete ==
    (CurrentName \in uploaded /\ local0 = "absent") => local_current = "full"

\* C15: once get_s3_objects has returned, prefix + n for the names n it
\* returned are exactly the non-marker keys that were listed.
C15_NamesRebuildKeys ==
    ListingReturned
        => {PrefixedKey(Prefix, objects[i]) : i \in 1..Len(objects)} = NonMarkerKeys(store0)

\* C16: a run that has passed the step after the deletes has fetched the
\* second dataset in that run and put it at prefix + usa_population.json,
\* whether or not the listing held it, and index.html is published only
\* after that upload; a run that raised in that step had issued the fetch.
C16_Dataset2AlwaysRefreshed ==
    /\ pc \in {"index", "done"}
           => /\ ds2_uploaded
              /\ <<"dataset2", DATASET2_JSON_FILE>> \in Range(fetch_log)
              /\ PrefixedKey(Prefix, DATASET2_JSON_FILE) \in store
    /\ pc = "index" => ~index_published
    /\ index_published => ds2_uploaded
    /\ (pc = "aborted" /\ abort_at = "dataset2")
           => <<"dataset2", DATASET2_JSON_FILE>> \in Range(fetch_log)

C16_Witness ==
    /\ pc = "done"
    /\ DATASET2_JSON_FILE \in Range(objects)
    /\ ds2_uploaded
    /\ index_published

\* C17: a local cache file that exists when a run starts is the same at
\* every point of that run, whatever the listing and the uploads.
C17_ExistingLocalCopyKept ==
    local0 # "absent" => local_current = local0

C17_Witness ==
    /\ UploadReturned
    /\ local0 = "old"
    /\ local_current = "old"
    /\ CurrentName \in uploaded

====
